---- MODULE Spec2Model ----
(***************************************************************************)
(* Measurement persistence and indexing of the daq package:                *)
(*   Base._save            (src/daq/_base.py)                              *)
(*   get_next_number, generate_filename, insert_measurement                *)
(*                         (src/daq/db/database.py)                        *)
(* Runs of _save by several callers share one catalog (the MongoDB         *)
(* collection), one file system and one wall clock.                        *)
(*                                                                         *)
(* Text is modelled as a sequence of one-character strings, so that        *)
(* formatting (zfill, f-strings), parsing (int) and the catalog's string   *)
(* ordering are computed and not assumed.                                  *)
(***************************************************************************)
EXTENDS Integers, Sequences, FiniteSets, TLC

VARIABLES
    pc,            \* per run: position in _save
    device,        \* per run: getattr(self, "device", None)
    mtype,         \* per run: measurement_type, from the script's file name
    save_filename, \* per run: the save_filename argument
    number,        \* per run: local `number`
    db_available,  \* per run: local `db_available`
    save_path,     \* per run: local `save_path`
    returned,      \* per run: the value _save returned
    insertCalled,  \* per run: insert_measurement was called
    log,           \* per run: the kinds of message printed
    catalog,       \* the documents of the collection
    files,         \* the file system: the files that exist, with their content's owner
    opened,        \* every (path, run) for which h5py.File(path, "w") was executed
    issued,        \* the numbers get_next_number returned, in order of return
    reachable,     \* the catalog answers
    now,           \* the wall clock, in seconds
    record,        \* file writer: self.__dict__, as a sequence of (name, value)
    failing,       \* file writer: the names whose storage h5py refuses
    idx,           \* file writer: position of the loop over self.__dict__
    h5f,           \* file writer: the file being written
    warned,        \* file writer: the names of the "unable to save" warnings
    collection,    \* allocator: the documents of the collection
    allocated,     \* allocator: what get_next_number returned last
    fit_results,   \* document builder: getattr(self, "fit_results", None)
    document,      \* document builder: local `document`
    docLog,        \* document builder: the kinds of message printed
    docStage,      \* document builder: position in _build_document
    docIdx,        \* document builder: position of the loop over self.__dict__
    stored,        \* query engine: the documents of the collection
    criteria,      \* query engine: the arguments of the call
    rows           \* query engine: the rows of the returned DataFrame

saveVars == <<pc, device, mtype, save_filename, number, db_available, save_path,
              returned, insertCalled, log, catalog, files, opened, issued,
              reachable, now>>

writerVars == <<record, failing, idx, h5f, warned>>

allocVars == <<collection, allocated>>

docVars == <<fit_results, document, docLog, docStage, docIdx>>

queryVars == <<stored, criteria, rows>>

vars == <<saveVars, writerVars, allocVars, docVars, queryVars>>

----------------------------------------------------------------------------
(* Bounds *)

NumRuns == 2
MaxClock == 1
MaxDocs == 6

Runs == 1..NumRuns

----------------------------------------------------------------------------
(* Text *)

DigitChars == <<"0", "1", "2", "3", "4", "5", "6", "7", "8", "9">>

DigitOf(n) == DigitChars[n + 1]

DigitVal(c) == CHOOSE i \in 0..9 : DigitChars[i + 1] = c

\* str(n) for n >= 0
RECURSIVE Str(_)
Str(n) == IF n < 10 THEN <<DigitOf(n)>>
          ELSE Str(n \div 10) \o <<DigitOf(n % 10)>>

\* s.zfill(width): pads on the left, never truncates
RECURSIVE Zfill(_, _)
Zfill(s, width) == IF Len(s) >= width THEN s ELSE Zfill(<<"0">> \o s, width)

\* int(s) for a string of digits
RECURSIVE ParseInt(_)
ParseInt(s) == IF Len(s) = 0 THEN 0
               ELSE ParseInt(SubSeq(s, 1, Len(s) - 1)) * 10 + DigitVal(s[Len(s)])

\* the catalog's order on string values: character by character
RECURSIVE StrLess(_, _)
StrLess(a, b) ==
    IF Len(b) = 0 THEN FALSE
    ELSE IF Len(a) = 0 THEN TRUE
    ELSE IF a[1] # b[1] THEN DigitVal(a[1]) < DigitVal(b[1])
    ELSE StrLess(Tail(a), Tail(b))

NoneValue == <<"<None>">>

NUMBER_WIDTH == 8

----------------------------------------------------------------------------
(* The catalog: src/daq/db/database.py *)

\* find_one with the sort ascending
FindOneMinNumber(coll) ==
    {d \in coll : \A e \in coll : ~StrLess(e.number, d.number)}

\* collection.find_one(sort=[("number", -1)], projection={"number": 1}):
\* the set holding the document the query may return (empty: None)
FindOneMaxNumber(coll) ==
    {d \in coll : \A e \in coll : ~StrLess(d.number, e.number)}

\* get_next_number(), given the collection's documents when the query runs
get_next_number(coll) ==
    LET result == FindOneMaxNumber(coll)
        next_number == IF result # {}
                       THEN ParseInt((CHOOSE d \in result : TRUE).number) + 1
                       ELSE 1
    IN  Zfill(Str(next_number), NUMBER_WIDTH)

\* generate_filename(number, device, measurement_type)
generate_filename(n, dev, type) ==
    n \o <<"-">> \o dev \o <<"-">> \o type \o <<".h5">>

\* get_data_folder(): the directory the data files go to
DataFolder == <<"data/">>

\* os.path.join(data_folder, save_basename)
PathJoin(folder, base) == folder \o base

\* datetime.now().strftime("%Y%m%d%H%M%S") at second t of the observed minute
Strftime(t) ==
    <<"2", "0", "2", "4", "0", "1", "1", "5", "1", "5", "3", "0">> \o Zfill(Str(t), 2)

\* the document _build_document returns for a run, as insert_measurement stores it
\* (id stands for the _id the collection gives the inserted document)
\* BuildDocument with the generated name as the file, whatever was written
BuildDocumentGeneratedName(p) ==
    [id |-> p,
     utc_time |-> now,
     number |-> number[p],
     type |-> mtype[p],
     file |-> PathJoin(DataFolder, generate_filename(number[p], device[p], mtype[p])),
     device |-> device[p]]

BuildDocument(p) ==
    [id |-> p,
     utc_time |-> now,
     number |-> number[p],
     type |-> mtype[p],
     file |-> save_path[p],
     device |-> device[p]]

----------------------------------------------------------------------------
(* The inputs of a run *)

Devices == {NoneValue, <<>>, <<"A">>}
Types == {<<"sweep">>}
CustomPath == <<"custom.h5">>
SaveFilenames == {NoneValue, CustomPath}

NoFile == [open |-> FALSE, attrs |-> {}, datasets |-> {}]

WriterIdle ==
    /\ record = <<>>
    /\ failing = {}
    /\ idx = 0
    /\ h5f = NoFile
    /\ warned = {}

AllocIdle ==
    /\ collection = {}
    /\ allocated = NoneValue

DocIdle ==
    /\ fit_results = NoneValue
    /\ document = {}
    /\ docLog = {}
    /\ docStage = "idle"
    /\ docIdx = 0

QueryIdle ==
    /\ stored = {}
    /\ criteria = NoneValue
    /\ rows = NoneValue

Init ==
    /\ pc = [p \in Runs |-> "start"]
    /\ device \in [Runs -> Devices]
    /\ mtype \in [Runs -> Types]
    /\ save_filename \in [Runs -> SaveFilenames]
    /\ number = [p \in Runs |-> NoneValue]
    /\ db_available = [p \in Runs |-> FALSE]
    /\ save_path = [p \in Runs |-> NoneValue]
    /\ returned = [p \in Runs |-> NoneValue]
    /\ insertCalled = [p \in Runs |-> FALSE]
    /\ log = [p \in Runs |-> {}]
    /\ catalog = {}
    /\ files = {}
    /\ opened = {}
    /\ issued = <<>>
    /\ reachable \in BOOLEAN
    /\ now = 0
    /\ WriterIdle
    /\ AllocIdle
    /\ DocIdle
    /\ QueryIdle

----------------------------------------------------------------------------
(* Base._save, one action per step that touches the catalog, the file      *)
(* system or the clock.                                                    *)

\* lines 41-49: device is None raises ValueError
CheckDeviceRaise(p) ==
    /\ pc[p] = "start"
    /\ device[p] = NoneValue
    /\ pc' = [pc EXCEPT ![p] = "raised"]
    /\ UNCHANGED <<device, mtype, save_filename, number, db_available, save_path,
                   returned, insertCalled, log, catalog, files, opened, issued,
                   reachable, now>>
    /\ UNCHANGED <<writerVars, allocVars, docVars, queryVars>>

CheckDevicePass(p) ==
    /\ pc[p] = "start"
    /\ device[p] # NoneValue
    /\ pc' = [pc EXCEPT ![p] = "allocate"]
    /\ UNCHANGED <<device, mtype, save_filename, number, db_available, save_path,
                   returned, insertCalled, log, catalog, files, opened, issued,
                   reachable, now>>
    /\ UNCHANGED <<writerVars, allocVars, docVars, queryVars>>

\* lines 52-54: get_next_number() returned
AllocateOk(p) ==
    /\ pc[p] = "allocate"
    /\ reachable
    /\ number' = [number EXCEPT ![p] = get_next_number(catalog)]
    /\ db_available' = [db_available EXCEPT ![p] = TRUE]
    /\ issued' = Append(issued, number'[p])
    /\ pc' = [pc EXCEPT ![p] = "write"]
    /\ UNCHANGED <<device, mtype, save_filename, save_path, returned, insertCalled,
                   log, catalog, files, opened, reachable, now>>
    /\ UNCHANGED <<writerVars, allocVars, docVars, queryVars>>

\* lines 55-64: get_next_number() raised; the timestamp is the number
AllocateFallback(p) ==
    /\ pc[p] = "allocate"
    /\ ~reachable
    /\ log' = [log EXCEPT ![p] = @ \cup {"WARN: Database unavailable"}]
    /\ number' = [number EXCEPT ![p] = Strftime(now)]
    /\ db_available' = [db_available EXCEPT ![p] = FALSE]
    /\ pc' = [pc EXCEPT ![p] = "write"]
    /\ UNCHANGED <<device, mtype, save_filename, save_path, returned, insertCalled,
                   catalog, files, opened, issued, reachable, now>>
    /\ UNCHANGED <<writerVars, allocVars, docVars, queryVars>>

\* lines 67-75: the path of the file
SavePath(p) ==
    IF save_filename[p] = NoneValue
    THEN PathJoin(DataFolder, generate_filename(number[p], device[p], mtype[p]))
    ELSE save_filename[p]

\* WriteFile with the write made conditional on db_available
WriteFileIfCatalog(p) ==
    /\ pc[p] = "write"
    /\ save_path' = [save_path EXCEPT ![p] = SavePath(p)]
    /\ files' = IF db_available[p]
                THEN {f \in files : f.path # save_path'[p]}
                         \cup {[path |-> save_path'[p], owner |-> p]}
                ELSE files
    /\ opened' = IF db_available[p] THEN opened \cup {<<save_path'[p], p>>} ELSE opened
    /\ log' = log
    /\ pc' = [pc EXCEPT ![p] = "insert"]
    /\ UNCHANGED <<device, mtype, save_filename, number, db_available, returned,
                   insertCalled, catalog, issued, reachable, now>>
    /\ UNCHANGED <<writerVars, allocVars, docVars, queryVars>>

\* lines 67-104: h5py.File(save_path, "w") creates or truncates the file, the
\* record is written into it and the file is closed
WriteFile(p) ==
    /\ pc[p] = "write"
    /\ save_path' = [save_path EXCEPT ![p] = SavePath(p)]
    /\ files' = {f \in files : f.path # save_path'[p]}
                   \cup {[path |-> save_path'[p], owner |-> p]}
    /\ opened' = opened \cup {<<save_path'[p], p>>}
    /\ log' = [log EXCEPT ![p] = @ \cup {"Data saved to"}]
    /\ pc' = [pc EXCEPT ![p] = "insert"]
    /\ UNCHANGED <<device, mtype, save_filename, number, db_available, returned,
                   insertCalled, catalog, issued, reachable, now>>
    /\ UNCHANGED <<writerVars, allocVars, docVars, queryVars>>

\* lines 107-118 and 130: the document is built and inserted
InsertOk(p) ==
    /\ pc[p] = "insert"
    /\ db_available[p]
    /\ reachable
    /\ insertCalled' = [insertCalled EXCEPT ![p] = TRUE]
    /\ catalog' = catalog \cup {BuildDocument(p)}
    /\ log' = [log EXCEPT ![p] = @ \cup {"Document inserted"}]
    /\ returned' = [returned EXCEPT ![p] = save_path[p]]
    /\ pc' = [pc EXCEPT ![p] = "done"]
    /\ UNCHANGED <<device, mtype, save_filename, number, db_available, save_path,
                   files, opened, issued, reachable, now>>
    /\ UNCHANGED <<writerVars, allocVars, docVars, queryVars>>

\* InsertFail without the except clause: the exception leaves _save
InsertFailRaises(p) ==
    /\ pc[p] = "insert"
    /\ db_available[p]
    /\ ~reachable
    /\ insertCalled' = [insertCalled EXCEPT ![p] = TRUE]
    /\ pc' = [pc EXCEPT ![p] = "raised"]
    /\ UNCHANGED <<device, mtype, save_filename, number, db_available, save_path,
                   returned, log, catalog, files, opened, issued, reachable, now>>
    /\ UNCHANGED <<writerVars, allocVars, docVars, queryVars>>

\* lines 107-123 and 130: insert_measurement raised; a warning, no exception
InsertFail(p) ==
    /\ pc[p] = "insert"
    /\ db_available[p]
    /\ ~reachable
    /\ insertCalled' = [insertCalled EXCEPT ![p] = TRUE]
    /\ log' = [log EXCEPT ![p] = @ \cup {"WARN: Failed to insert"}]
    /\ returned' = [returned EXCEPT ![p] = save_path[p]]
    /\ pc' = [pc EXCEPT ![p] = "done"]
    /\ UNCHANGED <<device, mtype, save_filename, number, db_available, save_path,
                   catalog, files, opened, issued, reachable, now>>
    /\ UNCHANGED <<writerVars, allocVars, docVars, queryVars>>

\* InsertSkip with the insert tried whatever db_available says
InsertAnyway(p) ==
    /\ pc[p] = "insert"
    /\ ~db_available[p]
    /\ insertCalled' = [insertCalled EXCEPT ![p] = TRUE]
    /\ catalog' = IF reachable THEN catalog \cup {BuildDocument(p)} ELSE catalog
    /\ returned' = [returned EXCEPT ![p] = save_path[p]]
    /\ pc' = [pc EXCEPT ![p] = "done"]
    /\ UNCHANGED <<device, mtype, save_filename, number, db_available, save_path,
                   log, files, opened, issued, reachable, now>>
    /\ UNCHANGED <<writerVars, allocVars, docVars, queryVars>>

\* lines 124-130: the fallback number was used; no insert
InsertSkip(p) ==
    /\ pc[p] = "insert"
    /\ ~db_available[p]
    /\ log' = [log EXCEPT ![p] = @ \cup {"INFO: Database logging skipped"}]
    /\ returned' = [returned EXCEPT ![p] = save_path[p]]
    /\ pc' = [pc EXCEPT ![p] = "done"]
    /\ UNCHANGED <<device, mtype, save_filename, number, db_available, save_path,
                   insertCalled, catalog, files, opened, issued, reachable, now>>
    /\ UNCHANGED <<writerVars, allocVars, docVars, queryVars>>

(* The environment *)

CatalogDown ==
    /\ reachable
    /\ reachable' = FALSE
    /\ UNCHANGED <<pc, device, mtype, save_filename, number, db_available, save_path,
                   returned, insertCalled, log, catalog, files, opened, issued, now>>
    /\ UNCHANGED <<writerVars, allocVars, docVars, queryVars>>

CatalogUp ==
    /\ ~reachable
    /\ reachable' = TRUE
    /\ UNCHANGED <<pc, device, mtype, save_filename, number, db_available, save_path,
                   returned, insertCalled, log, catalog, files, opened, issued, now>>
    /\ UNCHANGED <<writerVars, allocVars, docVars, queryVars>>

Tick ==
    /\ now < MaxClock
    /\ now' = now + 1
    /\ UNCHANGED <<pc, device, mtype, save_filename, number, db_available, save_path,
                   returned, insertCalled, log, catalog, files, opened, issued,
                   reachable>>
    /\ UNCHANGED <<writerVars, allocVars, docVars, queryVars>>

Next ==
    \/ \E p \in Runs : CheckDeviceRaise(p)
    \/ \E p \in Runs : CheckDevicePass(p)
    \/ \E p \in Runs : AllocateOk(p)
    \/ \E p \in Runs : AllocateFallback(p)
    \/ \E p \in Runs : WriteFile(p)
    \/ \E p \in Runs : InsertOk(p)
    \/ \E p \in Runs : InsertFail(p)
    \/ \E p \in Runs : InsertSkip(p)
    \/ CatalogDown
    \/ CatalogUp
    \/ Tick

Spec == Init /\ [][Next]_vars

----------------------------------------------------------------------------
(* The file writer: the body of `with h5py.File(save_path, "w") as h5f`,   *)
(* src/daq/_base.py lines 79-102, one action per pass of the loop.         *)

\* a value of the record: its kind and a token for its content
Scalar(v) == [kind |-> "scalar", val |-> v]
Array(v) == [kind |-> "array", val |-> v]
Mapping(v) == [kind |-> "mapping", val |-> v]
NoneObject == [kind |-> "none", val |-> "None"]

\* str(value): a Python string holding the value's text
PyStr(v) == [kind |-> "text", val |-> v.val]

\* np.isscalar(value)
IsScalar(v) == v.kind \in {"scalar", "text", "npscalar", "str"}

\* attribute.startswith("_")
StartsWithUnderscore(name) == Len(name) > 0 /\ name[1] = "_"

FIT_RESULTS == <<"fit_results">>
TextAttributes == {<<"jpa_params">>, <<"clear">>}
SOURCE_CODE == <<"source_code">>

\* get_sourcecode(script_path)
SourceLines == Array("lines of the script")

Field(name, value) == [name |-> name, value |-> value]

\* the records the callers hand over: each candidate attribute is absent or
\* present with one of its values, in the order __init__ and run set them
Records ==
    {c1 \o c2 \o c3 \o c4 \o c5 \o c6 :
        c1 \in {<<>>, <<Field(<<"_", "lck">>, Scalar("handle"))>>},
        c2 \in {<<Field(<<"amp">>, Scalar("0.1"))>>},
        c3 \in {<<Field(<<"freq_arr">>, NoneObject)>>,
                <<Field(<<"freq_arr">>, Array("[1e9, 2e9]"))>>},
        c4 \in {<<>>, <<Field(<<"jpa_params">>, Mapping("{pump: 1}"))>>},
        c5 \in {<<>>, <<Field(<<"fit_results">>, Mapping("{fr: 5.1e9}"))>>},
        c6 \in {<<>>, <<Field(SOURCE_CODE, Array("[0]"))>>,
                <<Field(SOURCE_CODE, Scalar("text"))>>}}

NamesOf(rec) == {rec[i].name : i \in 1..Len(rec)}

WriterInit ==
    /\ record \in Records
    /\ failing \in SUBSET NamesOf(record)
    /\ idx = 0
    /\ h5f = NoFile
    /\ warned = {}
    /\ pc = [p \in Runs |-> "start"]
    /\ device = [p \in Runs |-> NoneValue]
    /\ mtype = [p \in Runs |-> <<"sweep">>]
    /\ save_filename = [p \in Runs |-> NoneValue]
    /\ number = [p \in Runs |-> NoneValue]
    /\ db_available = [p \in Runs |-> FALSE]
    /\ save_path = [p \in Runs |-> NoneValue]
    /\ returned = [p \in Runs |-> NoneValue]
    /\ insertCalled = [p \in Runs |-> FALSE]
    /\ log = [p \in Runs |-> {}]
    /\ catalog = {}
    /\ files = {}
    /\ opened = {}
    /\ issued = <<>>
    /\ reachable = TRUE
    /\ now = 0
    /\ AllocIdle
    /\ DocIdle
    /\ QueryIdle

InLoop == h5f.open /\ idx \in 1..Len(record)

\* h5f.attrs[name] = value
SetAttr(f, name, value) ==
    [f EXCEPT !.attrs = {e \in @ : e.name # name} \cup {Field(name, value)}]

\* h5f.create_dataset(name, data=value)
CreateDataset(f, name, value) ==
    [f EXCEPT !.datasets = @ \cup {Field(name, value)}]

\* the branch of lines 93-100 taken for an attribute that is not skipped
IsTextBranch(fld) == fld.name \in TextAttributes
IsAttrBranch(fld) == ~IsTextBranch(fld) /\ IsScalar(fld.value)
IsDatasetBranch(fld) == ~IsTextBranch(fld) /\ ~IsScalar(fld.value)

IsSkipped(fld) == StartsWithUnderscore(fld.name) \/ fld.name = FIT_RESULTS

\* the store of the attribute raises: h5py refuses the value, or the data has
\* no HDF5 type (None, a dict), or a dataset of that name exists
Raises(f, fld) ==
    \/ fld.name \in failing
    \/ /\ IsDatasetBranch(fld)
       /\ \/ fld.value.kind \in {"none", "mapping"}
          \/ \E e \in f.datasets : e.name = fld.name

\* lines 79-83: the file is created and the source text written
WriterOpen ==
    /\ idx = 0
    /\ ~h5f.open
    /\ h5f' = [open |-> TRUE, attrs |-> {}, datasets |-> {Field(SOURCE_CODE, SourceLines)}]
    /\ idx' = 1
    /\ UNCHANGED <<record, failing, warned>>
    /\ UNCHANGED <<saveVars, allocVars, docVars, queryVars>>

\* lines 87-88
SkipInternal ==
    /\ InLoop
    /\ StartsWithUnderscore(record[idx].name)
    /\ idx' = idx + 1
    /\ UNCHANGED <<record, failing, h5f, warned>>
    /\ UNCHANGED <<saveVars, allocVars, docVars, queryVars>>

\* lines 89-92
SkipFitResults ==
    /\ InLoop
    /\ ~StartsWithUnderscore(record[idx].name)
    /\ record[idx].name = FIT_RESULTS
    /\ idx' = idx + 1
    /\ UNCHANGED <<record, failing, h5f, warned>>
    /\ UNCHANGED <<saveVars, allocVars, docVars, queryVars>>

\* StoreText without the str()
StoreTextRaw ==
    /\ idx \in 1..Len(record)
    /\ h5f.open
    /\ ~(StartsWithUnderscore(record[idx].name) \/ record[idx].name = <<"fit_results">>)
    /\ record[idx].name \in {<<"jpa_params">>, <<"clear">>}
    /\ record[idx].name \notin failing
    /\ h5f' = [h5f EXCEPT !.attrs = {e \in @ : e.name # record[idx].name}
                                     \cup {record[idx]}]
    /\ idx' = idx + 1
    /\ UNCHANGED <<record, failing, warned>>
    /\ UNCHANGED <<saveVars, allocVars, docVars, queryVars>>

\* lines 93-94
StoreText ==
    /\ InLoop
    /\ ~IsSkipped(record[idx])
    /\ IsTextBranch(record[idx])
    /\ ~Raises(h5f, record[idx])
    /\ h5f' = SetAttr(h5f, record[idx].name, PyStr(record[idx].value))
    /\ idx' = idx + 1
    /\ UNCHANGED <<record, failing, warned>>
    /\ UNCHANGED <<saveVars, allocVars, docVars, queryVars>>

\* lines 95-96
StoreAttr ==
    /\ InLoop
    /\ ~IsSkipped(record[idx])
    /\ IsAttrBranch(record[idx])
    /\ ~Raises(h5f, record[idx])
    /\ h5f' = SetAttr(h5f, record[idx].name, record[idx].value)
    /\ idx' = idx + 1
    /\ UNCHANGED <<record, failing, warned>>
    /\ UNCHANGED <<saveVars, allocVars, docVars, queryVars>>

\* lines 97-100
StoreDataset ==
    /\ InLoop
    /\ ~IsSkipped(record[idx])
    /\ IsDatasetBranch(record[idx])
    /\ ~Raises(h5f, record[idx])
    /\ h5f' = CreateDataset(h5f, record[idx].name, record[idx].value)
    /\ idx' = idx + 1
    /\ UNCHANGED <<record, failing, warned>>
    /\ UNCHANGED <<saveVars, allocVars, docVars, queryVars>>

\* WarnUnable with the try around the loop: the first failure ends the loop
WarnUnableAbort ==
    /\ InLoop
    /\ ~IsSkipped(record[idx])
    /\ Raises(h5f, record[idx])
    /\ warned' = warned \cup {record[idx].name}
    /\ idx' = Len(record) + 1
    /\ UNCHANGED <<record, failing, h5f>>
    /\ UNCHANGED <<saveVars, allocVars, docVars, queryVars>>

\* lines 101-102: the store raised; a warning, and the loop goes on
WarnUnable ==
    /\ InLoop
    /\ ~IsSkipped(record[idx])
    /\ Raises(h5f, record[idx])
    /\ warned' = warned \cup {record[idx].name}
    /\ idx' = idx + 1
    /\ UNCHANGED <<record, failing, h5f>>
    /\ UNCHANGED <<saveVars, allocVars, docVars, queryVars>>

\* the with block ends: the file is closed
WriterClose ==
    /\ h5f.open
    /\ idx = Len(record) + 1
    /\ h5f' = [h5f EXCEPT !.open = FALSE]
    /\ UNCHANGED <<record, failing, idx, warned>>
    /\ UNCHANGED <<saveVars, allocVars, docVars, queryVars>>

WriterNext ==
    \/ WriterOpen
    \/ SkipInternal
    \/ SkipFitResults
    \/ StoreText
    \/ StoreAttr
    \/ StoreDataset
    \/ WarnUnable
    \/ WriterClose

WriterSpec == WriterInit /\ [][WriterNext]_vars

Finished == ~h5f.open /\ idx = Len(record) + 1

----------------------------------------------------------------------------
(* The allocator alone: get_next_number against a collection that grows by *)
(* the inserts of the numbers it issued (src/daq/db/database.py 29-53 and  *)
(* 73-90). A caller is issued a number and returns; in between, the number *)
(* is inserted once, not at all (the insert failed) or more than once (by  *)
(* callers that were issued the same number).                              *)

AllocInit ==
    /\ collection = {}
    /\ allocated = NoneValue
    /\ WriterIdle
    /\ DocIdle
    /\ QueryIdle
    /\ pc = [p \in Runs |-> "start"]
    /\ device = [p \in Runs |-> NoneValue]
    /\ mtype = [p \in Runs |-> <<"sweep">>]
    /\ save_filename = [p \in Runs |-> NoneValue]
    /\ number = [p \in Runs |-> NoneValue]
    /\ db_available = [p \in Runs |-> FALSE]
    /\ save_path = [p \in Runs |-> NoneValue]
    /\ returned = [p \in Runs |-> NoneValue]
    /\ insertCalled = [p \in Runs |-> FALSE]
    /\ log = [p \in Runs |-> {}]
    /\ catalog = {}
    /\ files = {}
    /\ opened = {}
    /\ issued = <<>>
    /\ reachable = TRUE
    /\ now = 0

\* get_next_number() returns
AllocQuery ==
    /\ allocated = NoneValue
    /\ allocated' = get_next_number(collection)
    /\ UNCHANGED collection
    /\ UNCHANGED <<saveVars, writerVars, docVars, queryVars>>

\* insert_measurement(document) of a document carrying the issued number
AllocInsert ==
    /\ allocated # NoneValue
    /\ Cardinality(collection) < MaxDocs
    /\ collection' = collection \cup
                        {[id |-> Cardinality(collection) + 1, number |-> allocated]}
    /\ UNCHANGED allocated
    /\ UNCHANGED <<saveVars, writerVars, docVars, queryVars>>

\* the caller returns
AllocDone ==
    /\ allocated # NoneValue
    /\ allocated' = NoneValue
    /\ UNCHANGED collection
    /\ UNCHANGED <<saveVars, writerVars, docVars, queryVars>>

AllocNext ==
    \/ AllocQuery
    \/ AllocInsert
    \/ AllocDone

AllocSpec == AllocInit /\ [][AllocNext]_vars

----------------------------------------------------------------------------
(* Properties of the runs of _save (Spec)                                  *)

Terminated(p) == pc[p] \in {"done", "raised"}

Inserted(p) == \E d \in catalog : d.id = p

IssuedValues == {ParseInt(issued[i]) : i \in 1..Len(issued)}

\* every run that has a device has a non-empty one
DevicesNamed == \A p \in Runs : device[p] # <<>>

\* C1: when every run has ended and every catalog call of every run was
\* answered (each number was issued by the catalog and each document was
\* inserted), the N issued numbers are pairwise different and are exactly
\* 1..N, the catalog being empty at the start. Stated for runs with a
\* non-empty device.
C1_ConcurrentAllocationIssuesOneToN ==
    ( /\ DevicesNamed
      /\ \A p \in Runs : Terminated(p)
      /\ \A p \in Runs : pc[p] = "done" => db_available[p] /\ Inserted(p) )
    => /\ \A i, j \in 1..Len(issued) : i # j => issued[i] # issued[j]
       /\ IssuedValues = 1..Len(issued)

\* C2: every number get_next_number returns is strictly greater than every
\* number it returned before, whatever became of the inserts. Stated for
\* runs with a non-empty device.
C2_IssuedStrictlyIncreasing ==
    DevicesNamed =>
        \A i, j \in 1..Len(issued) :
            i < j => ParseInt(issued[i]) < ParseInt(issued[j])

\* C3: a run that is past the device check and the allocation step has
\* executed the file write on its save_path, whether the number came from the
\* catalog or from the clock; no run gets to the insert step or returns
\* without it.
C3_FileWrittenWhateverTheCatalog ==
    \A p \in Runs :
        pc[p] \in {"insert", "done"} => <<save_path[p], p>> \in opened

\* a run returned with the fallback number, and the file it wrote exists
C3_Witness ==
    \E p \in Runs :
        /\ pc[p] = "done"
        /\ ~db_available[p]
        /\ [path |-> save_path[p], owner |-> p] \in files

\* C4: a run that took the fallback number never calls insert_measurement
\* and has no document in the catalog.
C4_FallbackNeverInserts ==
    \A p \in Runs :
        (pc[p] \in {"write", "insert", "done"} /\ ~db_available[p])
            => ~insertCalled[p] /\ ~Inserted(p)

\* a run returned with the fallback number while the catalog answers again
C4_Witness ==
    \E p \in Runs :
        /\ pc[p] = "done"
        /\ ~db_available[p]
        /\ reachable

\* C5: only a missing device makes _save raise; a run that ends otherwise
\* returns its save_path and has written the file, whatever the catalog did.
C5_CatalogFailureNeverAborts ==
    \A p \in Runs :
        /\ pc[p] = "raised" => device[p] = NoneValue
        /\ pc[p] = "done" =>
              /\ returned[p] = save_path[p]
              /\ <<save_path[p], p>> \in opened

\* one run returned after its insert failed, another after its allocation failed
C5_Witness ==
    \E p, q \in Runs :
        /\ pc[p] = "done" /\ db_available[p] /\ insertCalled[p] /\ ~Inserted(p)
        /\ pc[q] = "done" /\ ~db_available[q]

\* C6: a run whose device is None or the empty string never gets past the
\* device check: it allocates nothing, writes nothing, inserts nothing.
C6_NoDeviceNoPersistence ==
    \A p \in Runs :
        device[p] \in {NoneValue, <<>>} => pc[p] \in {"start", "raised"}

\* C7: no path is opened for writing by two runs. Stated for the runs that
\* have a non-empty device and let _save name the file.
C7_NoFileWrittenTwice ==
    \A a, b \in opened :
        ( /\ DevicesNamed
          /\ a[1] = b[1]
          /\ save_filename[a[2]] = NoneValue
          /\ save_filename[b[2]] = NoneValue )
        => a[2] = b[2]

----------------------------------------------------------------------------
(* Properties of get_next_number (AllocSpec)                               *)

\* the decimal value of a string of digits
DecimalValue(s) ==
    LET RECURSIVE Sum(_)
        Sum(i) == IF i > Len(s) THEN 0
                  ELSE DigitVal(s[i]) * 10 ^ (Len(s) - i) + Sum(i + 1)
    IN  Sum(1)

GreatestNumber(docs) ==
    CHOOSE n \in {DecimalValue(d.number) : d \in docs} :
        \A d \in docs : DecimalValue(d.number) <= n

\* n written with eight decimal digits
EightDigits(n) == [i \in 1..8 |-> DigitOf((n \div 10 ^ (8 - i)) % 10)]

\* C8: whenever get_next_number returns, it returns the successor of the
\* greatest number of the collection written with eight digits, and
\* "00000001" for an empty collection.
C8_NextIsSuccessorOfGreatest ==
    [][ (allocated = NoneValue /\ allocated' # NoneValue) =>
          allocated' = IF collection = {}
                       THEN <<"0", "0", "0", "0", "0", "0", "0", "1">>
                       ELSE EightDigits(GreatestNumber(collection) + 1) ]_vars

\* the greatest number is "00000005" and "00000006" was returned
C8_Witness ==
    /\ \E d \in collection : d.number = <<"0", "0", "0", "0", "0", "0", "0", "5">>
    /\ \A d \in collection : DecimalValue(d.number) <= 5
    /\ allocated = <<"0", "0", "0", "0", "0", "0", "0", "6">>

----------------------------------------------------------------------------
(* Properties of the file writer (WriterSpec)                              *)

InAttrs(name, value) == Field(name, value) \in h5f.attrs
InDatasets(name, value) == Field(name, value) \in h5f.datasets

SourceTextKept == InDatasets(SOURCE_CODE, SourceLines)

NonInternal == {i \in 1..Len(record) : record[i].name[1] # "_"}

\* scalars as attributes, arrays as datasets
StoredByKind(fld) ==
    IF fld.value.kind = "scalar"
    THEN InAttrs(fld.name, fld.value)
    ELSE InDatasets(fld.name, fld.value)

\* the text of the value as an attribute
StoredAsText(fld) == InAttrs(fld.name, [kind |-> "text", val |-> fld.value.val])

\* as the claims state it: fit_results among the fields stored as text
StoredAsClaimed(fld) ==
    IF fld.name \in {<<"jpa_params">>, <<"clear">>, <<"fit_results">>}
    THEN StoredAsText(fld)
    ELSE StoredByKind(fld)

\* as the code does it: fit_results left out of the file
StoredAsWritten(fld) ==
    IF fld.name = <<"fit_results">>
    THEN \A e \in h5f.attrs \cup h5f.datasets : e.name # fld.name
    ELSE IF fld.name \in {<<"jpa_params">>, <<"clear">>}
    THEN StoredAsText(fld)
    ELSE StoredByKind(fld)

----------------------------------------------------------------------------
(* The document builder: Base._build_document, src/daq/_base.py 132-228.   *)
(* The values of the record carry a number as the token of their content.  *)

NumpyScalar(v) == [kind |-> "npscalar", val |-> v]
PyList(v) == [kind |-> "list", val |-> v]
PyString(chars) == [kind |-> "str", val |-> chars]

\* a datetime of the day of the clock: second, microsecond, tzinfo
DateTime(s, us, tz) == [sec |-> s, micro |-> us, tz |-> tz]
Microseconds == {0, 500000}
DatePrefix == <<"2", "0", "2", "6", "-", "1", "1", "-", "0", "6", "T",
                "0", "0", ":", "0", "0", ":">>
UtcOffset == <<"+", "0", "0", ":", "0", "0">>

\* datetime.isoformat(): the fraction only when microsecond is not 0, the
\* offset only when the datetime is aware
IsoFormat(dt) ==
    DatePrefix \o Zfill(Str(dt.sec), 2)
    \o (IF dt.micro # 0 THEN <<".">> \o Zfill(Str(dt.micro), 6) ELSE <<>>)
    \o (IF dt.tz = "utc" THEN UtcOffset ELSE <<>>)

\* line 143: datetime.utcnow().isoformat()
Timestamp(t, us) == PyString(IsoFormat(DateTime(t, us, "naive")))
\* an object whose __str__ raises
Unprintable(v) == [kind |-> "unprintable", val |-> v]

\* the values of a fit-result map: a number, something float() refuses, no entry
Num(n) == [kind |-> "num", val |-> n]
BadNumber == [kind |-> "bad", val |-> 0]
\* a str holding the digits of n: float() takes it, the operator / does not
NumText(n) == [kind |-> "numtext", val |-> n]
NoEntry == [kind |-> "absent", val |-> 0]

\* fit_results is not a dict
NotADict == <<"<not a dict>">>

FitKeys == {"fr", "fr_err", "Qi_dia_corr", "Qi_dia_corr_err",
            "Qc_dia_corr", "absQc_err", "Ql", "Ql_err"}

\* lines 157-180: the key read and the field written, in the order of the code
FitSteps == << <<"fr", <<"fit_fr">> >>,
               <<"fr_err", <<"fit_fr_err">> >>,
               <<"Qi_dia_corr", <<"fit_Qi">> >>,
               <<"Qi_dia_corr_err", <<"fit_Qi_err">> >>,
               <<"Qc_dia_corr", <<"fit_Qc">> >>,
               <<"absQc_err", <<"fit_Qc_err">> >>,
               <<"Ql", <<"fit_Ql">> >>,
               <<"Ql_err", <<"fit_Ql_err">> >> >>

\* lines 206-209
LargeArrays == {<<"freq_arr">>, <<"resp_arr">>, <<"pixel_i">>, <<"pixel_q">>,
                <<"lsb">>, <<"usb">>, <<"freqs_usb">>, <<"freqs_lsb">>}

\* line 198
MetadataFields == {<<"device">>, <<"filter">>, <<"notes">>}

\* getattr(self, name, None)
GetAttr(rec, name) ==
    IF \E i \in 1..Len(rec) : rec[i].name = name
    THEN rec[CHOOSE i \in 1..Len(rec) : rec[i].name = name].value
    ELSE NoneObject

\* document[key] = value
DocSet(doc, key, value) == {e \in doc : e.name # key} \cup {Field(key, value)}

\* key in fit
HasKey(fit, key) == fit[key].kind # "absent"

\* float(value) raises ValueError or TypeError
FloatRaises(v) == v.kind = "bad"

\* lines 185-187: the quotient of the values as the map holds them
DivRaises(a, b) == a.kind # "num" \/ b.kind # "num"

\* lines 155-190: the try block, from step i on, and what the except clause
\* leaves: the document and whether the warning was printed
RECURSIVE ExtractFrom(_, _, _)
ExtractFrom(doc, fit, i) ==
    IF i <= Len(FitSteps)
    THEN IF ~HasKey(fit, FitSteps[i][1])
         THEN ExtractFrom(doc, fit, i + 1)
         ELSE IF FloatRaises(fit[FitSteps[i][1]])
         THEN [doc |-> doc, failed |-> TRUE]
         ELSE ExtractFrom(DocSet(doc, FitSteps[i][2], Num(fit[FitSteps[i][1]].val)),
                          fit, i + 1)
    ELSE IF HasKey(fit, "fr") /\ HasKey(fit, "Qc_dia_corr")
            /\ fit["Qc_dia_corr"] # Num(0)
         THEN IF DivRaises(fit["fr"], fit["Qc_dia_corr"])
              THEN [doc |-> doc, failed |-> TRUE]
              ELSE [doc |-> DocSet(doc, <<"fit_kappa">>,
                                   Num(fit["fr"].val \div fit["Qc_dia_corr"].val)),
                    failed |-> FALSE]
         ELSE [doc |-> doc, failed |-> FALSE]

\* lines 142-150
DocBase(p) ==
    /\ docStage = "idle"
    /\ \E us \in Microseconds :
          document' = {Field(<<"utc_time">>, Timestamp(now, us)),
                       Field(<<"number">>, PyString(number[p])),
                       Field(<<"type">>, PyString(mtype[p])),
                       Field(<<"file">>, PyString(save_path[p])),
                       Field(<<"device">>, PyString(device[p])),
                       Field(<<"filter">>, GetAttr(record, <<"filter">>)),
                       Field(<<"notes">>, GetAttr(record, <<"notes">>))}
    /\ docStage' = "fit"
    /\ UNCHANGED <<fit_results, docLog, docIdx>>
    /\ UNCHANGED <<saveVars, writerVars, allocVars, queryVars>>

\* lines 153-154: no fit_results, or not a dict
DocNoFit ==
    /\ docStage = "fit"
    /\ fit_results \in {NoneValue, NotADict}
    /\ docStage' = "flatten"
    /\ docIdx' = 1
    /\ UNCHANGED <<fit_results, document, docLog>>
    /\ UNCHANGED <<saveVars, writerVars, allocVars, queryVars>>

\* lines 155-187: every extraction went through
DocFit ==
    /\ docStage = "fit"
    /\ fit_results \notin {NoneValue, NotADict}
    /\ ~ExtractFrom(document, fit_results, 1).failed
    /\ document' = ExtractFrom(document, fit_results, 1).doc
    /\ docStage' = "flatten"
    /\ docIdx' = 1
    /\ UNCHANGED <<fit_results, docLog>>
    /\ UNCHANGED <<saveVars, writerVars, allocVars, queryVars>>

\* lines 155-190: an extraction raised; the rest of the try block is left out
DocFitFailed ==
    /\ docStage = "fit"
    /\ fit_results \notin {NoneValue, NotADict}
    /\ ExtractFrom(document, fit_results, 1).failed
    /\ document' = ExtractFrom(document, fit_results, 1).doc
    /\ docLog' = docLog \cup {"WARN: Failed to extract fit results"}
    /\ docStage' = "flatten"
    /\ docIdx' = 1
    /\ UNCHANGED fit_results
    /\ UNCHANGED <<saveVars, writerVars, allocVars, queryVars>>

InFlatten == docStage = "flatten" /\ docIdx \in 1..Len(record)

\* FlattenSkips without the list of the data arrays
FlattenSkipsButArrays(name) ==
    \/ StartsWithUnderscore(name)
    \/ name \in MetadataFields
    \/ name = FIT_RESULTS

\* lines 194-210
FlattenSkips(name) ==
    \/ StartsWithUnderscore(name)
    \/ name \in MetadataFields
    \/ name = FIT_RESULTS
    \/ name \in LargeArrays

\* lines 215-224: what the document gets for a value
Flattened(v) ==
    IF v.kind = "array" THEN PyList(v.val)
    ELSE IF v.kind = "npscalar" THEN Scalar(v.val)
    ELSE IF IsScalar(v) \/ v.kind = "none" THEN v
    ELSE PyStr(v)

\* lines 221-226: the value goes through str(), and str() raises
StrRaises(v) ==
    /\ v.kind \notin {"array", "npscalar", "none"}
    /\ ~IsScalar(v)
    /\ v.kind = "unprintable"

FlattenSkip ==
    /\ InFlatten
    /\ FlattenSkips(record[docIdx].name)
    /\ docIdx' = docIdx + 1
    /\ UNCHANGED <<fit_results, document, docLog, docStage>>
    /\ UNCHANGED <<saveVars, writerVars, allocVars, queryVars>>

FlattenCopy ==
    /\ InFlatten
    /\ ~FlattenSkips(record[docIdx].name)
    /\ ~StrRaises(record[docIdx].value)
    /\ document' = DocSet(document, record[docIdx].name, Flattened(record[docIdx].value))
    /\ docIdx' = docIdx + 1
    /\ UNCHANGED <<fit_results, docLog, docStage>>
    /\ UNCHANGED <<saveVars, writerVars, allocVars, queryVars>>

\* lines 225-226: except Exception: pass
FlattenDrop ==
    /\ InFlatten
    /\ ~FlattenSkips(record[docIdx].name)
    /\ StrRaises(record[docIdx].value)
    /\ docIdx' = docIdx + 1
    /\ UNCHANGED <<fit_results, document, docLog, docStage>>
    /\ UNCHANGED <<saveVars, writerVars, allocVars, queryVars>>

\* line 228
DocReturn ==
    /\ docStage = "flatten"
    /\ docIdx = Len(record) + 1
    /\ docStage' = "done"
    /\ UNCHANGED <<fit_results, document, docLog, docIdx>>
    /\ UNCHANGED <<saveVars, writerVars, allocVars, queryVars>>

\* the fit-result maps handed over
FitMaps ==
    {[k \in FitKeys |->
        CASE k = "fr" -> a
          [] k = "fr_err" -> b
          [] k = "Qi_dia_corr" -> c
          [] k = "Qi_dia_corr_err" -> Num(1)
          [] k = "Qc_dia_corr" -> d
          [] k = "absQc_err" -> e
          [] k = "Ql" -> f
          [] OTHER -> NoEntry] :
        a \in {NoEntry, Num(6), NumText(6), BadNumber},
        b \in {NoEntry, Num(1)},
        c \in {NoEntry, Num(4), BadNumber},
        d \in {NoEntry, Num(0), Num(2)},
        e \in {NoEntry, BadNumber},
        f \in {NoEntry, Num(3)}}

\* the records handed over, but for their device and fit_results
DocRecords ==
    {<<Field(<<"_", "lck">>, Scalar(10))>> \o c1 \o c2 \o c3 \o c4 \o c5 \o c6 :
        c1 \in {<<>>, <<Field(<<"filter">>, Scalar(11))>>},
        c2 \in {<<>>, <<Field(<<"notes">>, Scalar(12))>>},
        c3 \in {<<Field(<<"amp">>, NumpyScalar(13)),
                  Field(<<"if_freqs">>, Array(15))>>},
        c4 \in {<<>>, <<Field(<<"freq_arr">>, Array(14))>>},
        c5 \in {<<>>, <<Field(<<"number">>, Scalar(16))>>},
        c6 \in {<<>>, <<Field(<<"hook">>, Unprintable(18))>>}}

SaveIdle ==
    /\ pc = [p \in Runs |-> "start"]
    /\ device = [p \in Runs |-> NoneValue]
    /\ mtype = [p \in Runs |-> <<"sweep">>]
    /\ save_filename = [p \in Runs |-> NoneValue]
    /\ number = [p \in Runs |-> NoneValue]
    /\ db_available = [p \in Runs |-> FALSE]
    /\ save_path = [p \in Runs |-> NoneValue]
    /\ returned = [p \in Runs |-> NoneValue]
    /\ insertCalled = [p \in Runs |-> FALSE]
    /\ log = [p \in Runs |-> {}]
    /\ catalog = {}
    /\ files = {}
    /\ opened = {}
    /\ issued = <<>>
    /\ reachable = TRUE
    /\ now = 0

\* _build_document as _save calls it: device checked, number issued, file written
DocInit ==
    /\ \E dev \in Devices \ {NoneValue}, rec \in DocRecords,
          fit \in FitMaps \cup {NoneValue, NotADict} :
          /\ device = [p \in Runs |-> dev]
          /\ fit_results = fit
          /\ record = <<Field(<<"device">>, PyString(dev))>> \o rec \o
                       (IF fit = NoneValue THEN <<>>
                        ELSE <<Field(FIT_RESULTS, Mapping(19))>>)
          /\ save_path = [p \in Runs |->
                 PathJoin(DataFolder,
                          generate_filename(get_next_number({}), dev, <<"sweep">>))]
    /\ number = [p \in Runs |-> get_next_number({})]
    /\ db_available = [p \in Runs |-> TRUE]
    /\ pc = [p \in Runs |-> "insert"]
    /\ mtype = [p \in Runs |-> <<"sweep">>]
    /\ save_filename = [p \in Runs |-> NoneValue]
    /\ returned = [p \in Runs |-> NoneValue]
    /\ insertCalled = [p \in Runs |-> FALSE]
    /\ log = [p \in Runs |-> {}]
    /\ catalog = {}
    /\ files = {}
    /\ opened = {}
    /\ issued = <<>>
    /\ reachable = TRUE
    /\ now \in 0..MaxClock
    /\ failing = {}
    /\ idx = 0
    /\ h5f = NoFile
    /\ warned = {}
    /\ document = {}
    /\ docLog = {}
    /\ docStage = "idle"
    /\ docIdx = 0
    /\ AllocIdle
    /\ QueryIdle

DocNext ==
    \/ \E p \in Runs : DocBase(p)
    \/ DocNoFit
    \/ DocFit
    \/ DocFitFailed
    \/ FlattenSkip
    \/ FlattenCopy
    \/ FlattenDrop
    \/ DocReturn

DocSpec == DocInit /\ [][DocNext]_vars

----------------------------------------------------------------------------
(* The query layer: select_runs and list_devices of src/daq/db/database.py *)

MaxStored == 2
MaxListed == 3

\* the order of the catalog on strings: by the code of the characters
CodePoint(c) ==
    CASE c = "+" -> 43
      [] c = "-" -> 45
      [] c = "." -> 46
      [] c = ":" -> 58
      [] c = "T" -> 84
      [] c = "Z" -> 90
      [] OTHER -> 48 + DigitVal(c)

RECURSIVE TextLess(_, _)
TextLess(a, b) ==
    IF Len(b) = 0 THEN FALSE
    ELSE IF Len(a) = 0 THEN TRUE
    ELSE IF a[1] # b[1] THEN CodePoint(a[1]) < CodePoint(b[1])
    ELSE TextLess(Tail(a), Tail(b))

TextLeq(a, b) == a = b \/ TextLess(a, b)

\* s.replace("Z", "+00:00")
RECURSIVE ReplaceZ(_)
ReplaceZ(s) ==
    IF Len(s) = 0 THEN <<>>
    ELSE (IF s[1] = "Z" THEN UtcOffset ELSE <<s[1]>>) \o ReplaceZ(Tail(s))

\* datetime.fromisoformat(s), for the texts isoformat() produces
FromIsoFormat(s) ==
    LET n == Len(DatePrefix)
        rest == SubSeq(s, n + 3, Len(s))
        fraction == Len(rest) > 0 /\ rest[1] = "."
        tail == IF fraction THEN SubSeq(rest, 8, Len(rest)) ELSE rest
    IN  DateTime(ParseInt(SubSeq(s, n + 1, n + 2)),
                 IF fraction THEN ParseInt(SubSeq(rest, 2, 7)) ELSE 0,
                 IF tail = UtcOffset THEN "utc" ELSE "naive")

\* an argument that is a datetime
DateTimeArg(dt) == [kind |-> "datetime", val |-> dt]

\* re.IGNORECASE on the letters of the device names
Lower(c) == CASE c = "A" -> "a" [] c = "B" -> "b" [] OTHER -> c

LowerText(s) == [i \in 1..Len(s) |-> Lower(s[i])]

\* {"$regex": pattern, "$options": "i"} for a pattern of plain characters:
\* the pattern occurs somewhere in the text, whatever the case
RegexFound(pattern, text) ==
    \E i \in 0..(Len(text) - Len(pattern)) :
        SubSeq(LowerText(text), i + 1, i + Len(pattern)) = LowerText(pattern)

Condition(field, op, arg) == [field |-> field, op |-> op, arg |-> arg]

\* the helper with the two modes taken for one another
add_string_filter_regex(field, value, string_match) ==
    IF value.kind = "none" THEN {}
    ELSE {Condition(field, "regex", value.val)}

\* lines 124-131
add_string_filter(field, value, string_match) ==
    IF value.kind = "none" THEN {}
    ELSE IF string_match = "regex" THEN {Condition(field, "regex", value.val)}
    ELSE {Condition(field, "eq", value.val)}

\* lines 142-145, 149-152
BoundDateTime(bound) ==
    IF bound.kind = "str" THEN FromIsoFormat(ReplaceZ(bound.val)) ELSE bound.val

\* lines 139-157
TimeQuery(start_time, end_time) ==
    (IF start_time.kind = "none" THEN {}
     ELSE {Condition("utc_time", "gte", IsoFormat(BoundDateTime(start_time)))})
    \cup
    (IF end_time.kind = "none" THEN {}
     ELSE {Condition("utc_time", "lte", IsoFormat(BoundDateTime(end_time)))})

\* lines 120-157: the query dict
BuildQuery(args) ==
    add_string_filter("device", args.device, args.string_match)
    \cup add_string_filter("filter", args.filter_name, args.string_match)
    \cup add_string_filter("notes", args.notes, args.string_match)
    \cup add_string_filter("type", args.measurement_type, args.string_match)
    \cup TimeQuery(args.start_time, args.end_time)

\* the catalog's test of one document against one entry of the query dict;
\* a string operand is only ever matched by a string value
Satisfies(doc, c) ==
    /\ doc[c.field].kind = "str"
    /\ CASE c.op = "eq" -> doc[c.field].val = c.arg
         [] c.op = "regex" -> RegexFound(c.arg, doc[c.field].val)
         [] c.op = "gte" -> TextLeq(c.arg, doc[c.field].val)
         [] c.op = "lte" -> TextLeq(doc[c.field].val, c.arg)

\* collection.find(query)
Find(coll, query) == {doc \in coll : \A c \in query : Satisfies(doc, c)}

DataFrame(columns, table) == [columns |-> columns, table |-> table]

DocumentColumns == {"_id", "device", "filter", "notes", "type", "utc_time"}

\* lines 169-184
select_runs(coll, args) ==
    LET results == Find(coll, BuildQuery(args))
    IN  IF results = {} THEN DataFrame({}, {})
        ELSE DataFrame(DocumentColumns,
                       {[doc EXCEPT !["_id"] = Str(doc["_id"])] : doc \in results})

\* lines 199-204: $match and $group
DeviceGroups(coll) ==
    LET matched == {doc \in coll : doc.device.kind \notin {"absent", "none"}}
    IN  {[device |-> v.val,
          count |-> Cardinality({doc \in matched : doc.device = v})] :
            v \in {doc.device : doc \in matched}}

\* line 202: the orders $sort may give the groups, ties in any order
SortedByCount(groups) ==
    {sq \in [1..Cardinality(groups) -> groups] :
        /\ \A i, j \in 1..Cardinality(groups) : i # j => sq[i] # sq[j]
        /\ \A i, j \in 1..Cardinality(groups) : i < j => sq[i].count >= sq[j].count}

\* a document of the collection, with the _id the catalog gave it
StoredDocument(id, dev, time) ==
    [_id |-> id, device |-> dev, filter |-> NoneObject, notes |-> NoneObject,
     type |-> PyString(<<"sweep">>), utc_time |-> time]

NoCall == [op |-> "none"]
NoResult == [op |-> "none"]

SelectArgs(dev, mtyp, start, end, mode) ==
    [op |-> "select_runs", device |-> dev, filter_name |-> NoneObject,
     notes |-> NoneObject, measurement_type |-> mtyp,
     start_time |-> start, end_time |-> end, string_match |-> mode]

\* the devices of the documents _save inserts
BuiltDevices == {<<"A">>, <<"a", "B">>}

\* the forms of one bound of the time range
TimeBoundsAt(dt) ==
    {DateTimeArg(dt),
     DateTimeArg([dt EXCEPT !.tz = "utc"]),
     PyString(IsoFormat(dt)),
     PyString(IsoFormat(dt) \o <<"Z">>)}

Instants == {DateTime(t, us, "naive") : t \in 0..MaxClock, us \in Microseconds}

TimeBounds == UNION {TimeBoundsAt(dt) : dt \in Instants}

\* the calls of select_runs
Calls ==
    {SelectArgs(NoneObject, NoneObject, NoneObject, NoneObject, "exact")}
    \cup {SelectArgs(PyString(dev), NoneObject, NoneObject, NoneObject, mode) :
            dev \in BuiltDevices, mode \in {"exact", "regex"}}
    \cup {SelectArgs(NoneObject, PyString(t), NoneObject, NoneObject, "exact") :
            t \in {<<"sweep">>, <<"timestream">>}}
    \cup {SelectArgs(NoneObject, NoneObject, b, NoneObject, "exact") : b \in TimeBounds}
    \cup {SelectArgs(NoneObject, NoneObject, NoneObject, b, "exact") : b \in TimeBounds}
    \cup {SelectArgs(NoneObject, NoneObject, lo, hi, "exact") :
            lo \in TimeBoundsAt(DateTime(0, 0, "naive")), hi \in TimeBounds}
    \cup {SelectArgs(PyString(<<"A">>), NoneObject, b, NoneObject, "exact") :
            b \in TimeBoundsAt(DateTime(0, 0, "naive"))}

QueryInit ==
    /\ stored = {}
    /\ criteria = NoCall
    /\ rows = NoResult
    /\ SaveIdle
    /\ WriterIdle
    /\ AllocIdle
    /\ DocIdle

\* insert_measurement of a document _build_document made at this time
InsertBuilt ==
    /\ Cardinality(stored) < MaxStored
    /\ \E dev \in BuiltDevices, us \in Microseconds :
          stored' = stored \cup
              {StoredDocument(Cardinality(stored) + 1, PyString(dev),
                              Timestamp(now, us))}
    /\ criteria' = NoCall
    /\ rows' = NoResult
    /\ UNCHANGED <<saveVars, writerVars, allocVars, docVars>>

QueryTick ==
    /\ now < MaxClock
    /\ now' = now + 1
    /\ UNCHANGED <<pc, device, mtype, save_filename, number, db_available,
                   save_path, returned, insertCalled, log, catalog, files,
                   opened, issued, reachable>>
    /\ UNCHANGED <<writerVars, allocVars, docVars, queryVars>>

\* lines 93-184
SelectRuns ==
    /\ rows = NoResult
    /\ \E args \in Calls :
          /\ criteria' = args
          /\ rows' = [op |-> "select_runs", frame |-> select_runs(stored, args)]
    /\ UNCHANGED stored
    /\ UNCHANGED <<saveVars, writerVars, allocVars, docVars>>

\* the caller is done with the DataFrame
QueryReturn ==
    /\ rows # NoResult
    /\ criteria' = NoCall
    /\ rows' = NoResult
    /\ UNCHANGED stored
    /\ UNCHANGED <<saveVars, writerVars, allocVars, docVars>>

QueryNext == InsertBuilt \/ QueryTick \/ SelectRuns \/ QueryReturn

QuerySpec == QueryInit /\ [][QueryNext]_vars

\* the device of a document handed to insert_measurement: a name, the empty
\* string, None, or no device entry
ListedDevices == {PyString(<<"A">>), PyString(<<"a", "B">>), PyString(<<>>),
                  NoneObject, NoEntry}

InsertAny ==
    /\ Cardinality(stored) < MaxListed
    /\ \E dev \in ListedDevices :
          stored' = stored \cup
              {StoredDocument(Cardinality(stored) + 1, dev, Timestamp(now, 0))}
    /\ criteria' = NoCall
    /\ rows' = NoResult
    /\ UNCHANGED <<saveVars, writerVars, allocVars, docVars>>

\* lines 187-215
ListDevices ==
    /\ rows = NoResult
    /\ criteria' = [op |-> "list_devices"]
    /\ \E sq \in SortedByCount(DeviceGroups(stored)) :
          rows' = [op |-> "list_devices",
                   frame |-> DataFrame({"device", "count"}, sq)]
    /\ UNCHANGED stored
    /\ UNCHANGED <<saveVars, writerVars, allocVars, docVars>>

DevicesNext == InsertAny \/ ListDevices \/ QueryReturn

DevicesSpec == QueryInit /\ [][DevicesNext]_vars

----------------------------------------------------------------------------
(* One call of _save from the device check to the return: the steps of the *)
(* file writer and of the document builder between those of Spec           *)

\* the records of the call, but for their device and fit_results
RunRecords ==
    {<<Field(<<"_", "lck">>, Scalar(10)), Field(<<"amp">>, NumpyScalar(13)),
       Field(<<"freq_arr">>, Array(14))>> \o c1 \o c2 :
        c1 \in {<<>>, <<Field(<<"jpa_params">>, Mapping(17))>>},
        c2 \in {<<>>, <<Field(<<"hook">>, Unprintable(18))>>}}

\* the fit results of the call
RunFits ==
    {NoneValue,
     [k \in FitKeys |-> CASE k = "fr" -> Num(6)
                          [] k = "Qc_dia_corr" -> Num(2)
                          [] OTHER -> NoEntry],
     [k \in FitKeys |-> CASE k = "fr" -> Num(6)
                          [] k = "Qi_dia_corr" -> BadNumber
                          [] k = "Ql" -> Num(3)
                          [] OTHER -> NoEntry]}

RunInit ==
    /\ pc = [p \in Runs |-> IF p = 1 THEN "start" ELSE "idle"]
    /\ \E dev \in Devices, rec \in RunRecords, fit \in RunFits :
          /\ device = [p \in Runs |-> dev]
          /\ fit_results = fit
          /\ record = <<Field(<<"device">>,
                              IF dev = NoneValue THEN NoneObject ELSE PyString(dev))>>
                       \o rec \o
                       (IF fit = NoneValue THEN <<>>
                        ELSE <<Field(FIT_RESULTS, Mapping(19))>>)
    /\ failing \in SUBSET (NamesOf(record) \cap {<<"amp">>, <<"hook">>})
    /\ mtype = [p \in Runs |-> <<"sweep">>]
    /\ save_filename = [p \in Runs |-> NoneValue]
    /\ number = [p \in Runs |-> NoneValue]
    /\ db_available = [p \in Runs |-> FALSE]
    /\ save_path = [p \in Runs |-> NoneValue]
    /\ returned = [p \in Runs |-> NoneValue]
    /\ insertCalled = [p \in Runs |-> FALSE]
    /\ log = [p \in Runs |-> {}]
    /\ catalog = {}
    /\ files = {}
    /\ opened = {}
    /\ issued = <<>>
    /\ reachable \in BOOLEAN
    /\ now = 0
    /\ idx = 0
    /\ h5f = NoFile
    /\ warned = {}
    /\ document = {}
    /\ docLog = {}
    /\ docStage = "idle"
    /\ docIdx = 0
    /\ AllocIdle
    /\ QueryIdle

\* lines 78-102: the steps of the with block
RunWriter ==
    /\ \E p \in Runs : pc[p] = "write"
    /\ WriterNext

\* lines 102-104: the with block is left
RunWriteFile(p) ==
    /\ Finished
    /\ WriteFile(p)

\* lines 109-111: the steps of _build_document
RunBuild ==
    \E p \in Runs :
        /\ pc[p] = "insert"
        /\ db_available[p]
        /\ \/ DocBase(p)
           \/ DocNoFit
           \/ DocFit
           \/ DocFitFailed
           \/ FlattenSkip
           \/ FlattenCopy
           \/ FlattenDrop
           \/ DocReturn

\* lines 112-123: insert_measurement(document)
RunInsert(p) ==
    /\ docStage = "done"
    /\ (InsertOk(p) \/ InsertFail(p))

RunNext ==
    \/ \E p \in Runs : CheckDeviceRaise(p)
    \/ \E p \in Runs : CheckDevicePass(p)
    \/ \E p \in Runs : AllocateOk(p)
    \/ \E p \in Runs : AllocateFallback(p)
    \/ RunWriter
    \/ \E p \in Runs : RunWriteFile(p)
    \/ RunBuild
    \/ \E p \in Runs : RunInsert(p)
    \/ \E p \in Runs : InsertSkip(p)
    \/ CatalogDown
    \/ CatalogUp

RunSpec == RunInit /\ [][RunNext]_vars

----------------------------------------------------------------------------
(* Properties of the document builder (DocSpec)                            *)

DocKeys == {e.name : e \in document}

DocHas(key, value) == Field(key, value) \in document

Built == docStage = "done"

\* C11: at no point of its construction does the document have a key that is
\* one of the eight names of the data arrays.
C11_NoLargeArrayInDocument ==
    DocKeys \cap {<<"freq_arr">>, <<"resp_arr">>, <<"pixel_i">>, <<"pixel_q">>,
                  <<"lsb">>, <<"usb">>, <<"freqs_usb">>, <<"freqs_lsb">>} = {}

\* the document was built from a record that has freq_arr and another array
C11_Witness ==
    /\ Built
    /\ <<"freq_arr">> \in NamesOf(record)
    /\ \E e \in document : e.value.kind = "list"

\* C12: the returned document has utc_time, number, type, file, device,
\* filter and notes, holding the time of the build, the arguments number,
\* measurement_type, file_path and device, and the record's filter and notes,
\* whatever other attributes the record has.
C12_AlwaysPresentFields ==
    (Built /\ DevicesNamed) =>
        \A p \in Runs :
            /\ \E us \in {0, 500000} :
                  DocHas(<<"utc_time">>,
                         [kind |-> "str",
                          val |-> IsoFormat([sec |-> now, micro |-> us, tz |-> "naive"])])
            /\ DocHas(<<"number">>, [kind |-> "str", val |-> number[p]])
            /\ DocHas(<<"type">>, [kind |-> "str", val |-> mtype[p]])
            /\ DocHas(<<"file">>, [kind |-> "str", val |-> save_path[p]])
            /\ DocHas(<<"device">>, [kind |-> "str", val |-> device[p]])
            /\ DocHas(<<"filter">>, GetAttr(record, <<"filter">>))
            /\ DocHas(<<"notes">>, GetAttr(record, <<"notes">>))

\* the fit metric of a key of the map that holds a number
MetricOf(key) ==
    CASE key = "fr" -> <<"fit_fr">>
      [] key = "fr_err" -> <<"fit_fr_err">>
      [] key = "Qi_dia_corr" -> <<"fit_Qi">>
      [] key = "Qi_dia_corr_err" -> <<"fit_Qi_err">>
      [] key = "Qc_dia_corr" -> <<"fit_Qc">>
      [] key = "absQc_err" -> <<"fit_Qc_err">>
      [] key = "Ql" -> <<"fit_Ql">>
      [] key = "Ql_err" -> <<"fit_Ql_err">>

IsFitMap == fit_results \notin {NoneValue, NotADict}

\* C16: the returned document has the metric of every key of the fit-result
\* map that holds a number, whatever the other keys hold, and the fields that
\* are always there.
C16_OtherFitMetricsKept ==
    (Built /\ IsFitMap /\ DevicesNamed) =>
        /\ \A key \in FitKeys :
              fit_results[key].kind \in {"num", "numtext"} =>
                  DocHas(MetricOf(key), [kind |-> "num", val |-> fit_results[key].val])
        /\ {<<"utc_time">>, <<"type">>, <<"file">>, <<"device">>} \subseteq DocKeys

\* C17: when the map holds numbers for fr and for Qc_dia_corr and the latter
\* is not zero, the returned document has fit_kappa and it is their quotient;
\* when fr or Qc_dia_corr is missing or Qc_dia_corr is zero, it has no
\* fit_kappa.
C17_KappaIffFrAndNonZeroQc ==
    (Built /\ IsFitMap /\ DevicesNamed) =>
        LET fr == fit_results["fr"]
            Qc == fit_results["Qc_dia_corr"]
            defined == fr.kind = "num" /\ Qc.kind = "num" /\ Qc.val # 0
            missing == fr.kind = "absent" \/ Qc.kind = "absent"
                       \/ (Qc.kind = "num" /\ Qc.val = 0)
        IN  /\ defined => DocHas(<<"fit_kappa">>,
                                  [kind |-> "num", val |-> fr.val \div Qc.val])
            /\ missing => <<"fit_kappa">> \notin DocKeys

----------------------------------------------------------------------------
(* Properties of the query layer (QuerySpec, DevicesSpec)                  *)

Selected == rows.op = "select_runs"

ReturnedIds == {row["_id"] : row \in rows.frame.table}

IdsOf(docs) == {Str(doc["_id"]) : doc \in docs}

NoStringFilter ==
    /\ criteria.device.kind = "none"
    /\ criteria.filter_name.kind = "none"
    /\ criteria.notes.kind = "none"
    /\ criteria.measurement_type.kind = "none"

NoTimeFilter ==
    /\ criteria.start_time.kind = "none"
    /\ criteria.end_time.kind = "none"

OnlyDeviceExact ==
    /\ criteria.device.kind = "str"
    /\ criteria.filter_name.kind = "none"
    /\ criteria.notes.kind = "none"
    /\ criteria.measurement_type.kind = "none"
    /\ NoTimeFilter
    /\ criteria.string_match = "exact"

\* C13: select_runs without filters returns every document of the catalog,
\* and with a device filter alone, in exact mode, the documents whose device
\* is the given value, all of them and no other.
C13_SelectRunsExactSubset ==
    Selected =>
        /\ (NoStringFilter /\ NoTimeFilter) => ReturnedIds = IdsOf(stored)
        /\ OnlyDeviceExact =>
              ReturnedIds = IdsOf({doc \in stored : doc.device = criteria.device})

\* a call with a device filter alone returned some documents of the catalog
\* and left out one whose device has the given value inside it
C13_Witness ==
    /\ Selected
    /\ OnlyDeviceExact
    /\ ReturnedIds # {}
    /\ \E doc \in stored :
          /\ Str(doc["_id"]) \notin ReturnedIds
          /\ RegexFound(criteria.device.val, doc.device.val)

\* C14: list_devices returns one row per device value that is not empty, with
\* the number of documents of that device, the rows by count descending, and
\* no row for the documents whose device is missing, None or empty.
C14_ListDevicesNamedOnly ==
    rows.op = "list_devices" =>
        LET table == rows.frame.table
            named == {doc \in stored :
                         doc.device.kind = "str" /\ doc.device.val # <<>>}
        IN  /\ {table[i].device : i \in 1..Len(table)} =
                   {doc.device.val : doc \in named}
            /\ Len(table) = Cardinality({doc.device.val : doc \in named})
            /\ \A i \in 1..Len(table) :
                  table[i].count =
                      Cardinality({doc \in named : doc.device.val = table[i].device})
            /\ \A i, j \in 1..Len(table) :
                  i < j => table[i].count >= table[j].count

\* microseconds since the start of the day of the clock
MicrosOf(dt) == dt.sec * 1000000 + dt.micro

InRange(doc) ==
    LET at == MicrosOf(FromIsoFormat(doc.utc_time.val))
    IN  /\ criteria.start_time.kind # "none" =>
              MicrosOf(BoundDateTime(criteria.start_time)) <= at
        /\ criteria.end_time.kind # "none" =>
              at <= MicrosOf(BoundDateTime(criteria.end_time))

\* C15: with a time range alone, select_runs returns the documents whose
\* utc_time is an instant at or after the lower bound and at or before the
\* upper bound, the bounds included, whether a bound is a datetime or an
\* ISO-8601 text, with or without a trailing Z.
C15_TimeRangeInclusive ==
    (Selected /\ NoStringFilter) =>
        ReturnedIds = IdsOf({doc \in stored : InRange(doc)})

----------------------------------------------------------------------------
(* Properties of a run from the file to the catalog (Spec)                 *)

----------------------------------------------------------------------------
(* Properties of one call of _save (RunSpec)                               *)

\* the messages of a call that tell of a degradation
Diagnosed(p) ==
    \/ log[p] \cap {"WARN: Database unavailable", "WARN: Failed to insert",
                     "INFO: Database logging skipped"} # {}
    \/ warned # {}
    \/ "WARN: Failed to extract fit results" \in docLog

\* a field the writer was to store is not in the file
LeftOutOfFile ==
    \E i \in 1..Len(record) :
        /\ ~StartsWithUnderscore(record[i].name)
        /\ record[i].name # <<"fit_results">>
        /\ record[i].name \notin {e.name : e \in h5f.attrs \cup h5f.datasets}

\* a field the builder was to copy, or a metric of a key of the fit-result
\* map, is not in the document that was built
LeftOutOfDocument ==
    /\ Built
    /\ \/ \E i \in 1..Len(record) :
             /\ ~StartsWithUnderscore(record[i].name)
             /\ record[i].name \notin
                    {<<"fit_results">>, <<"freq_arr">>, <<"resp_arr">>,
                     <<"pixel_i">>, <<"pixel_q">>, <<"lsb">>, <<"usb">>,
                     <<"freqs_usb">>, <<"freqs_lsb">>}
             /\ record[i].name \notin DocKeys
       \/ /\ IsFitMap
          /\ \E key \in FitKeys :
                fit_results[key].kind # "absent" /\ MetricOf(key) \notin DocKeys

NotCatalogued(p) ==
    \/ ~db_available[p]
    \/ ~insertCalled[p]
    \/ \A doc \in catalog : doc.id # p

\* C18: a call that has returned with a field left out of the file or of the
\* document, with the surrogate number, or with the insert skipped or failed,
\* has printed at least one message that tells of it.
C18_NoSilentDegradation ==
    \A p \in Runs :
        (pc[p] = "done" /\ DevicesNamed
         /\ (LeftOutOfFile \/ LeftOutOfDocument \/ NotCatalogued(p)))
            => Diagnosed(p)

====
